---- MODULE Spec2Model ----
(***************************************************************************)
(* Model of src/library.py: DRAMAddressMappingTool.                        *)
(*                                                                         *)
(* Text is a sequence of Unicode code points.                              *)
(* A Python integer read from the text (a bit offset, a bit length) is      *)
(* unbounded: it is a record [neg, mag] of its sign and its decimal digits, *)
(* most significant first, without leading zeros (zero has no digit).       *)
(* An address, and a field extracted from it, is a non-negative Python      *)
(* integer kept as the set of its bit positions (bit i is set iff i is in   *)
(* the set), so that 64-bit and wider values are exact.                     *)
(* A call gives back a record [exception, value]; where the host decides    *)
(* the outcome (memory for a very long mask) the operators give the set of  *)
(* the possible outcomes.                                                   *)
(***************************************************************************)
EXTENDS Integers, Sequences, FiniteSets, TLC

\* ------------------------------------------------------------------------
\* Bounds of the model
\* ------------------------------------------------------------------------
MaxLines == 2
NumCallers == 2

\* ------------------------------------------------------------------------
\* What a call gives back: a value, or the exception it raised
\* ------------------------------------------------------------------------
Return(v) == [exception |-> "none", value |-> v]

IsRaised(r) == r.exception # "none"

\* ------------------------------------------------------------------------
\* Python integers by sign and decimal digits
\* ------------------------------------------------------------------------
Zero == [neg |-> FALSE, mag |-> <<>>]

One == [neg |-> FALSE, mag |-> <<1>>]

\* the digits without their leading zeros
Strip(d) ==
    IF \A i \in 1..Len(d) : d[i] = 0 THEN <<>>
    ELSE SubSeq(d, CHOOSE i \in 1..Len(d) :
                      d[i] # 0 /\ \A j \in 1..(i - 1) : d[j] = 0,
                Len(d))

\* the digit of weight 10^(i-1), 0 beyond the most significant one
DigitAt(d, i) == IF i <= Len(d) THEN d[Len(d) + 1 - i] ELSE 0

MagLess(a, b) ==
    \/ Len(a) < Len(b)
    \/ /\ Len(a) = Len(b)
       /\ \E i \in 1..Len(a) : a[i] < b[i] /\ \A j \in 1..(i - 1) : a[j] = b[j]

\* a + b on digits: the carry into weight i comes from the nearest lower
\* weight whose column reaches 10 through columns that are all 9
MagAdd(a, b) ==
    LET n == (IF Len(a) > Len(b) THEN Len(a) ELSE Len(b)) + 1
        col(i) == DigitAt(a, i) + DigitAt(b, i)
        carry(i) == IF \E j \in 1..(i - 1) :
                          col(j) >= 10 /\ \A k \in (j + 1)..(i - 1) : col(k) = 9
                    THEN 1 ELSE 0
    IN  Strip([p \in 1..n |-> (col(n + 1 - p) + carry(n + 1 - p)) % 10])

\* a - b on digits, for a >= b: the borrow from weight i, likewise
MagSub(a, b) ==
    LET n == Len(a)
        borrow(i) == IF \E j \in 1..(i - 1) :
                           /\ DigitAt(a, j) < DigitAt(b, j)
                           /\ \A k \in (j + 1)..(i - 1) : DigitAt(a, k) = DigitAt(b, k)
                     THEN 1 ELSE 0
    IN  Strip([p \in 1..n |->
                 (DigitAt(a, n + 1 - p) - DigitAt(b, n + 1 - p)
                    - borrow(n + 1 - p) + 10) % 10])

\* x + y
IntAdd(x, y) ==
    IF x.neg = y.neg THEN [neg |-> x.neg, mag |-> MagAdd(x.mag, y.mag)]
    ELSE IF x.mag = y.mag THEN Zero
    ELSE IF MagLess(x.mag, y.mag)
         THEN [neg |-> y.neg, mag |-> MagSub(y.mag, x.mag)]
         ELSE [neg |-> x.neg, mag |-> MagSub(x.mag, y.mag)]

\* -x
IntNeg(x) == IF x.mag = <<>> THEN Zero ELSE [neg |-> ~x.neg, mag |-> x.mag]

\* x - y
IntSub(x, y) == IntAdd(x, IntNeg(y))

\* x < y
IntLess(x, y) == IntSub(x, y).neg

\* the integers below 10^9 in absolute value are also machine integers
FitsSmall(x) == Len(x.mag) <= 9

RECURSIVE MagValue(_, _)
MagValue(d, i) == IF i = 0 THEN 0 ELSE 10 * MagValue(d, i - 1) + d[i]

ToSmall(x) == IF x.neg THEN 0 - MagValue(x.mag, Len(x.mag))
              ELSE MagValue(x.mag, Len(x.mag))

RECURSIVE MagOf(_)
MagOf(n) == IF n = 0 THEN <<>> ELSE Append(MagOf(n \div 10), n % 10)

Num(n) == IF n < 0 THEN [neg |-> TRUE, mag |-> MagOf(0 - n)]
          ELSE [neg |-> FALSE, mag |-> MagOf(n)]

\* ------------------------------------------------------------------------
\* Characters and strings
\* ------------------------------------------------------------------------
\* the code points of the digit 0 of every decimal digit system of Unicode:
\* the class \d of a str pattern is these and the nine that follow each
DigitZeros == {48, 1632, 1776, 1984, 2406, 2534, 2662, 2790, 2918, 3046,
               3174, 3302, 3430, 3558, 3664, 3792, 3872, 4160, 4240, 6112,
               6160, 6470, 6608, 6784, 6800, 6992, 7088, 7232, 7248,
               42528, 43216, 43264, 43472, 43504, 43600, 44016, 65296,
               66720, 68912, 69734, 69872, 69942, 70096, 70384, 70736,
               70864, 71248, 71360, 71472, 71904, 72016, 72784, 73040,
               73120, 92768, 92864, 93008, 120782, 120792, 120802, 120812,
               120822, 123200, 123632, 125264, 130032}

IsDigit(c) == \E z \in DigitZeros : c \in z..(z + 9)

DigitVal(c) == c - (CHOOSE z \in DigitZeros : c \in z..(z + 9))

\* str.lower() on the letters A-Z, which is all that group 1 can hold
LowerChar(c) == IF c \in 65..90 THEN c + 32 ELSE c

lower(s) == [i \in 1..Len(s) |-> LowerChar(s[i])]

\* sys.get_int_max_str_digits(): the longest digit string int() converts
IntMaxStrDigits == 4300

\* int(s) for a non-empty string of decimal digits
int(s) ==
    IF Len(s) > IntMaxStrDigits
    THEN [exception |-> "ValueError", value |-> Zero]
    ELSE Return([neg |-> FALSE,
                 mag |-> Strip([i \in 1..Len(s) |-> DigitVal(s[i])])])

\* the line boundaries of str.splitlines(): \n \v \f \r \x1c \x1d \x1e \x85
\* U+2028 U+2029
LineBreaks == {10, 11, 12, 13, 28, 29, 30, 133, 8232, 8233}

\* where a line boundary starts: the \n of a "\r\n" is part of the \r's
BreakStarts(text) ==
    {i \in 1..Len(text) :
        /\ text[i] \in LineBreaks
        /\ ~(text[i] = 10 /\ i > 1 /\ text[i - 1] = 13)}

BreakLen(text, i) ==
    IF text[i] = 13 /\ i < Len(text) /\ text[i + 1] = 10 THEN 2 ELSE 1

\* the k-th boundary of the text
NthBreak(text, k) ==
    CHOOSE b \in BreakStarts(text) :
        Cardinality({c \in BreakStarts(text) : c < b}) = k - 1

\* str.splitlines(): a final boundary adds no empty line
splitlines(text) ==
    LET n == Cardinality(BreakStarts(text))
        first(k) == IF k = 1 THEN 1
                    ELSE NthBreak(text, k - 1) + BreakLen(text, NthBreak(text, k - 1))
        last(k) == IF k <= n THEN NthBreak(text, k) - 1 ELSE Len(text)
        count == IF first(n + 1) <= Len(text) THEN n + 1 ELSE n
    IN  [k \in 1..count |-> SubSeq(text, first(k), last(k))]

\* ------------------------------------------------------------------------
\* re.match(r"(Row|Column|Bank) bits (\d+)-(\d+)", line)
\* ------------------------------------------------------------------------
LabelAlternatives == << <<82, 111, 119>>,
                        <<67, 111, 108, 117, 109, 110>>,
                        <<66, 97, 110, 107>> >>

\* " bits "
BitsLiteral == <<32, 98, 105, 116, 115, 32>>

HasPrefix(s, p) == Len(s) >= Len(p) /\ SubSeq(s, 1, Len(p)) = p

\* length of the greedy \d+ run that starts at position i (0 when none)
DigitRun(s, i) ==
    IF i > Len(s) THEN 0
    ELSE (CHOOSE j \in i..(Len(s) + 1) :
             /\ j = Len(s) + 1 \/ ~IsDigit(s[j])
             /\ \A k \in i..(j - 1) : IsDigit(s[k])) - i

NoMatch == [matched |-> FALSE]

\* the match with the k-th alternative of group 1, anchored at the line start
MatchAlternative(line, k) ==
    LET lab == LabelAlternatives[k]
        p   == Len(lab) + Len(BitsLiteral)
        n1  == DigitRun(line, p + 1)
        n2  == DigitRun(line, p + n1 + 2)
    IN  IF /\ HasPrefix(line, lab \o BitsLiteral)
           /\ n1 >= 1
           /\ p + n1 + 1 <= Len(line)
           /\ line[p + n1 + 1] = 45
           /\ n2 >= 1
        THEN [matched |-> TRUE,
              group1  |-> lab,
              group2  |-> SubSeq(line, p + 1, p + n1),
              group3  |-> SubSeq(line, p + n1 + 2, p + n1 + 1 + n2)]
        ELSE NoMatch

re_match(line) ==
    IF MatchAlternative(line, 1).matched THEN MatchAlternative(line, 1)
    ELSE IF MatchAlternative(line, 2).matched THEN MatchAlternative(line, 2)
    ELSE MatchAlternative(line, 3)

\* ------------------------------------------------------------------------
\* parse_drama_output
\* ------------------------------------------------------------------------
EmptyMapping == <<>>

ParseRaise(exception) == [exception |-> exception, value |-> EmptyMapping]

\* mapping_info[key] = value
DictSet(m, key, value) ==
    [k \in (DOMAIN m) \cup {key} |-> IF k = key THEN value ELSE m[k]]

\* variant: the length is taken as end - start, one short
ParseLineExclusiveEnd(mapping, line) ==
    LET match == re_match(line)
    IN  IF ~match.matched THEN Return(mapping)
        ELSE IF IsRaised(int(match.group2)) \/ IsRaised(int(match.group3))
        THEN ParseRaise("ValueError")
        ELSE Return(DictSet(mapping, lower(match.group1),
                            <<int(match.group2).value,
                              IntSub(int(match.group3).value,
                                     int(match.group2).value)>>))

\* the body of the for loop, for one line: int() of either group may raise
ParseLine(mapping, line) ==
    LET match == re_match(line)
    IN  IF ~match.matched THEN Return(mapping)
        ELSE LET key   == lower(match.group1)
                 start == int(match.group2)
                 end   == int(match.group3)
             IN  IF IsRaised(start) \/ IsRaised(end)
                 THEN ParseRaise("ValueError")
                 ELSE Return(DictSet(mapping, key,
                                     <<start.value,
                                       IntAdd(IntSub(end.value, start.value), One)>>))

\* the for loop: an exception ends it
RECURSIVE ParseLines(_, _, _)
ParseLines(lines, i, mapping) ==
    IF i > Len(lines) THEN Return(mapping)
    ELSE LET r == ParseLine(mapping, lines[i])
         IN  IF IsRaised(r) THEN r ELSE ParseLines(lines, i + 1, r.value)

parse_drama_output(output) == ParseLines(splitlines(output), 1, EmptyMapping)

\* ------------------------------------------------------------------------
\* Non-negative integers as sets of bit positions (positions below 10^9)
\* ------------------------------------------------------------------------
\* value >> n, for n >= 0: a count of 10^9 or more leaves no bit
ShiftRight(value, n) ==
    IF FitsSmall(n)
    THEN {i - ToSmall(n) : i \in {j \in value : j >= ToSmall(n)}}
    ELSE {}

\* the largest count n for which CPython builds 1 << n (beyond it the
\* result would need more digits than an integer object can have)
ShiftCountLimit ==
    [neg |-> FALSE,
     mag |-> <<6, 9, 1, 7, 5, 2, 9, 0, 2, 7, 6, 4, 1, 0, 8, 1, 8, 3, 2, 0>>]

ShiftRaise(exception) == [exception |-> exception, value |-> [power |-> Zero]]

\* 1 << n, the power of two kept by its exponent: ValueError on a negative
\* count, OverflowError beyond ShiftCountLimit; a result of 10^9 bits or
\* more (125 MB and up) is built or refused (MemoryError) as the host decides
OneShiftLeft(n) ==
    IF n.neg THEN {ShiftRaise("ValueError")}
    ELSE IF IntLess(ShiftCountLimit, n) THEN {ShiftRaise("OverflowError")}
    ELSE IF ~FitsSmall(n)
         THEN {ShiftRaise("MemoryError"), Return([power |-> n])}
         ELSE {Return([power |-> n])}

\* 2^n - 1: every bit below n
MinusOne(p) == [below |-> p.power]

\* a & mask, for a mask 2^n - 1
BitAnd(a, mask) ==
    {i \in a : FitsSmall(mask.below) => i < ToSmall(mask.below)}

\* ------------------------------------------------------------------------
\* generate_address_mapping_function
\* ------------------------------------------------------------------------
ExtractRaise(exception) == [exception |-> exception, value |-> {}]

CallRaise(exception) == [exception |-> exception, value |-> <<>>]

\* extract_bits: the mask is built first, then the value is shifted
\* (ValueError on a negative count) and masked
extract_bits(value, start, length) ==
    {IF IsRaised(p) THEN ExtractRaise(p.exception)
     ELSE IF start.neg THEN ExtractRaise("ValueError")
     ELSE Return(BitAnd(ShiftRight(value, start), MinusOne(p.value)))
        : p \in OneShiftLeft(length)}

\* "row", "column", "bank"
KeyRow    == <<114, 111, 119>>
KeyColumn == <<99, 111, 108, 117, 109, 110>>
KeyBank   == <<98, 97, 110, 107>>

DefaultField == <<Zero, Zero>>

\* mapping_info.get(key, (0, 0))
DictGet(m, key) == IF key \in DOMAIN m THEN m[key] ELSE DefaultField

\* variant: the entry is taken out of the dictionary (pop instead of get)
DictAfterPop(m, key) == [k \in (DOMAIN m) \ {key} |-> m[k]]

\* the dictionary after mapping_info.get(key, ...): get() writes nothing
DictAfterGet(m, key) == m

\* extract_bits(phys_addr, *mapping_info.get(key, (0, 0)))
ExtractField(m, key, phys_addr) ==
    extract_bits(phys_addr, DictGet(m, key)[1], DictGet(m, key)[2])

\* address_mapping_func as one call: the first raising extraction ends it
address_mapping_func(m, phys_addr) ==
    {IF IsRaised(row) THEN CallRaise(row.exception)
     ELSE IF IsRaised(col) THEN CallRaise(col.exception)
     ELSE IF IsRaised(bank) THEN CallRaise(bank.exception)
     ELSE Return(<<row.value, col.value, bank.value>>)
        : row \in ExtractField(m, KeyRow, phys_addr),
          col \in ExtractField(m, KeyColumn, phys_addr),
          bank \in ExtractField(m, KeyBank, phys_addr)}

\* ------------------------------------------------------------------------
\* Inputs: reports the DRAMA tool may print, and physical addresses
\* ------------------------------------------------------------------------
\* decimal text of n >= 0
RECURSIVE Decimal(_)
Decimal(n) ==
    IF n < 10 THEN <<48 + n>>
    ELSE Decimal(n \div 10) \o <<48 + (n % 10)>>

FieldNames == {"row", "column", "bank"}

LabelOf(f) == CASE f = "row"    -> <<82, 111, 119>>
                [] f = "column" -> <<67, 111, 108, 117, 109, 110>>
                [] f = "bank"   -> <<66, 97, 110, 107>>

KeyOf(f) == CASE f = "row"    -> KeyRow
              [] f = "column" -> KeyColumn
              [] f = "bank"   -> KeyBank

\* a report line "<Label> bits <s>-<e>" and what it states: the field, its
\* offset s and its length e - s + 1, and whether s <= e
FieldLine(f, s, e) ==
    [field |-> f, start |-> Num(s), width |-> Num(e - s + 1), ordered |-> s <= e,
     text  |-> LabelOf(f) \o BitsLiteral \o Decimal(s) \o <<45>> \o Decimal(e)]

\* a report line the tool prints that states no field
OtherLine(chars) ==
    [field |-> "none", start |-> Zero, width |-> Zero, ordered |-> TRUE,
     text  |-> chars]

RowRanges == {<<10, 15>>, <<0, 3>>, <<4, 7>>, <<5, 3>>, <<5, 4>>,
              <<60, 63>>, <<64, 67>>}

ColumnRanges == {<<2, 13>>}

BankRanges == {<<30, 32>>, <<60, 70>>}

\* "Row bits 007-9 (x)": leading zeros and text after the range
PaddedLine ==
    [field |-> "row", start |-> Num(7), width |-> Num(3), ordered |-> TRUE,
     text  |-> <<82, 111, 119, 32, 98, 105, 116, 115, 32, 48, 48, 55, 45, 57, 32, 40, 120, 41>>]

\* "Row bits 3-5" written with the Arabic-Indic digits U+0663 and U+0665
ArabicIndicLine ==
    [field |-> "row", start |-> Num(3), width |-> Num(3), ordered |-> TRUE,
     text  |-> <<82, 111, 119, 32, 98, 105, 116, 115, 32>> \o <<1635, 45, 1637>>]

\* "Row bits 0-99999999999999999999": a length of 10^20
HugeLine ==
    [field |-> "row", start |-> Zero,
     width |-> [neg |-> FALSE, mag |-> <<1>> \o [i \in 1..20 |-> 0]],
     ordered |-> TRUE,
     text  |-> <<82, 111, 119, 32, 98, 105, 116, 115, 32, 48, 45>> \o [i \in 1..20 |-> 57]]

\* "Bank bits 0-9999999999": a length of 10^10
LongLine ==
    [field |-> "bank", start |-> Zero,
     width |-> [neg |-> FALSE, mag |-> <<1>> \o [i \in 1..10 |-> 0]],
     ordered |-> TRUE,
     text  |-> <<66, 97, 110, 107, 32, 98, 105, 116, 115, 32, 48, 45>> \o [i \in 1..10 |-> 57]]

\* "Row bits 1-111...1" with IntMaxStrDigits + 1 digits: int() refuses it
OverlongLine ==
    [field |-> "row", start |-> Num(1), width |-> Zero, ordered |-> TRUE,
     text  |-> <<82, 111, 119, 32, 98, 105, 116, 115, 32, 49, 45>> \o [i \in 1..(IntMaxStrDigits + 1) |-> 49]]

FieldLines ==
    {FieldLine("row", r[1], r[2]) : r \in RowRanges}
    \cup {FieldLine("column", r[1], r[2]) : r \in ColumnRanges}
    \cup {FieldLine("bank", r[1], r[2]) : r \in BankRanges}
    \cup {PaddedLine, ArabicIndicLine, HugeLine}

\* "garbage", "row bits 1-2", " Row bits 1-2", "Row bits x-3"
OtherLines ==
    {OtherLine(<<103, 97, 114, 98, 97, 103, 101>>),
     OtherLine(<<114, 111, 119, 32, 98, 105, 116, 115, 32, 49, 45, 50>>),
     OtherLine(<<32, 82, 111, 119, 32, 98, 105, 116, 115, 32, 49, 45, 50>>),
     OtherLine(<<82, 111, 119, 32, 98, 105, 116, 115, 32, 120, 45, 51>>)}

LinePool == FieldLines \cup OtherLines

SeqsUpTo(S, n) == UNION {[1..k -> S] : k \in 0..n}

\* "\n", "\r\n", U+2028
EndOfLines == {<<10>>, <<13, 10>>, <<8232>>}

Reports == {[lines |-> ls, eol |-> e] : ls \in SeqsUpTo(LinePool, MaxLines),
                                        e \in EndOfLines}

ExampleReport ==
    [lines |-> <<FieldLine("row", 14, 29), FieldLine("column", 2, 13),
                 FieldLine("bank", 30, 32)>>,
     eol   |-> <<10>>]

OverlongReport == [lines |-> <<OverlongLine>>, eol |-> <<10>>]

LongReport == [lines |-> <<LongLine>>, eol |-> <<10>>]

NoReport == [lines |-> <<>>, eol |-> <<10>>]

\* the text of a report: every line followed by the end-of-line sequence
RECURSIVE RenderFrom(_, _)
RenderFrom(r, i) ==
    IF i > Len(r.lines) THEN <<>>
    ELSE r.lines[i].text \o r.eol \o RenderFrom(r, i + 1)

Render(r) == RenderFrom(r, 1)

\* a machine integer 0 <= n < 2^31 as a set of bit positions, and back
FromInt(n) == {i \in 0..30 : (n \div (2 ^ i)) % 2 = 1}

RECURSIVE ToInt(_)
ToInt(bits) ==
    IF bits = {} THEN 0
    ELSE LET b == CHOOSE x \in bits : TRUE
         IN  (2 ^ b) + ToInt(bits \ {b})

AddressBits == 0..63

MaxAddress == AddressBits

Addresses == {{}, FromInt(15), FromInt(240), FromInt(305419896), MaxAddress,
              {3, 14, 17, 31, 32, 58, 61, 63}}

\* ------------------------------------------------------------------------
\* State
\* ------------------------------------------------------------------------
VARIABLES
    pc,            \* the next step of the run, or how it ended
    steps,         \* the steps called so far, in call order
    error,         \* the exception that ended the run, "none" if none
    report,        \* what the DRAMA tool printed, by line
    output,        \* the text handed to parse_drama_output
    mapping_info,  \* the dictionary the decoder closes over
    built_from,    \* the dictionary as it was when the decoder was generated
    phys_addr,     \* the address of the single decoder call
    decoded,       \* what the single decoder call gave back
    calls          \* the concurrent decoder calls, by caller

vars == <<pc, steps, error, report, output, mapping_info, built_from,
          phys_addr, decoded, calls>>

Callers == 1..NumCallers

NoResult == Return(<<>>)

IdleCall == [at |-> "idle", addr |-> {}, row |-> {}, col |-> {}, result |-> NoResult]

\* ------------------------------------------------------------------------
\* The collaborators of run_and_generate_mapping
\* ------------------------------------------------------------------------
\* self.dependencies
Dependencies == <<"make", "gcc">>

\* how subprocess.call(["which", dep]) can end: exit status 0, another exit
\* status, or "which" itself cannot be started
WhichOutcomes == {"found", "missing", "OSError"}

\* check_dependencies: the first dependency whose "which" does not exit
\* with 0 ends the loop; EnvironmentError is raised at line 26 (in Python 3
\* the same class as the OSError of a failed start, kept apart here)
check_dependencies(which) ==
    IF \A i \in 1..Len(Dependencies) : which[i] = "found" THEN "none"
    ELSE LET i == CHOOSE k \in 1..Len(Dependencies) :
                     which[k] # "found" /\ \A j \in 1..(k - 1) : which[j] = "found"
         IN  IF which[i] = "missing" THEN "EnvironmentError" ELSE "OSError"

\* how subprocess.run(["make", target], cwd=..., check=True) can end
MakeOutcomes == {"ok", "CalledProcessError", "OSError"}

\* run_make: CalledProcessError becomes RuntimeError, anything else propagates
run_make(outcome) ==
    CASE outcome = "ok" -> "none"
      [] outcome = "CalledProcessError" -> "RuntimeError"
      [] OTHER -> outcome

\* how subprocess.run(command, ..., check=True, capture_output=True,
\* text=True) can end: stdout that is not valid text raises UnicodeDecodeError
ToolOutcomes == {"ok", "CalledProcessError", "OSError", "UnicodeDecodeError"}

\* execute_drama_tool: CalledProcessError becomes RuntimeError as well
execute_drama_tool(outcome) ==
    CASE outcome = "ok" -> "none"
      [] outcome = "CalledProcessError" -> "RuntimeError"
      [] OTHER -> outcome

\* text=True: result.stdout has "\r\n" and "\r" translated to "\n"
UniversalNewlines(text) ==
    LET kept == {i \in 1..Len(text) :
                    ~(text[i] = 10 /\ i > 1 /\ text[i - 1] = 13)}
        char(i) == IF text[i] = 13 THEN 10 ELSE text[i]
    IN  IF Cardinality(kept) = Len(text)
        THEN [i \in 1..Len(text) |-> char(i)]
        ELSE [k \in 1..Cardinality(kept) |->
                 char(CHOOSE i \in kept : Cardinality({j \in kept : j <= i}) = k)]

\* variant: the emptiness check is missing
CheckOutputSkipped(out) == "none"

\* "if not output: raise RuntimeError"
CheckOutput(out) == IF out = <<>> THEN "RuntimeError" ELSE "none"

\* an exception leaves run_and_generate_mapping, otherwise the next step runs
Proceed(exception, next) == IF exception = "none" THEN next ELSE "raised"

\* the reports the tool prints in a run of the pipeline
PipelineReports ==
    {r \in Reports : Len(r.lines) <= 1}
    \cup {ExampleReport, OverlongReport, LongReport}

\* the addresses the concurrent callers decode
CallerAddresses == {FromInt(240), MaxAddress}

\* ------------------------------------------------------------------------
\* run_and_generate_mapping, step by step
\* ------------------------------------------------------------------------
Init ==
    /\ pc = "check_dependencies"
    /\ steps = <<>>
    /\ error = "none"
    /\ report = NoReport
    /\ output = <<>>
    /\ mapping_info = EmptyMapping
    /\ built_from = EmptyMapping
    /\ phys_addr = {}
    /\ decoded = NoResult
    /\ calls = [c \in Callers |-> IdleCall]

\* Step 1
CheckDependencies ==
    /\ pc = "check_dependencies"
    /\ \E which \in [1..Len(Dependencies) -> WhichOutcomes] :
          /\ error' = check_dependencies(which)
          /\ pc' = Proceed(check_dependencies(which), "run_make")
    /\ steps' = Append(steps, "check_dependencies")
    /\ UNCHANGED <<report, output, mapping_info, built_from, phys_addr,
                   decoded, calls>>

\* Step 2
RunMake ==
    /\ pc = "run_make"
    /\ \E outcome \in MakeOutcomes :
          /\ error' = run_make(outcome)
          /\ pc' = Proceed(run_make(outcome), "execute_drama_tool")
    /\ steps' = Append(steps, "run_make")
    /\ UNCHANGED <<report, output, mapping_info, built_from, phys_addr,
                   decoded, calls>>

\* Step 3, the tool fails: nothing is assigned to output
ExecuteDramaToolFails ==
    /\ pc = "execute_drama_tool"
    /\ \E outcome \in ToolOutcomes \ {"ok"} :
          /\ error' = execute_drama_tool(outcome)
          /\ pc' = Proceed(execute_drama_tool(outcome), "parse_drama_output")
    /\ steps' = Append(steps, "execute_drama_tool")
    /\ UNCHANGED <<report, output, mapping_info, built_from, phys_addr,
                   decoded, calls>>

\* Step 3, the tool prints a report: output is its stdout as text, checked
\* for emptiness
ExecuteDramaTool ==
    /\ pc = "execute_drama_tool"
    /\ \E r \in PipelineReports :
          /\ report' = r
          /\ output' = UniversalNewlines(Render(r))
          /\ error' = CheckOutput(UniversalNewlines(Render(r)))
          /\ pc' = Proceed(CheckOutput(UniversalNewlines(Render(r))),
                           "parse_drama_output")
    /\ steps' = Append(steps, "execute_drama_tool")
    /\ UNCHANGED <<mapping_info, built_from, phys_addr, decoded, calls>>

\* Step 4: the mapping is assigned unless parse_drama_output raises
ParseDramaOutput ==
    /\ pc = "parse_drama_output"
    /\ LET r == parse_drama_output(output)
       IN  /\ mapping_info' = r.value
           /\ error' = r.exception
           /\ pc' = Proceed(r.exception, "generate_address_mapping_function")
    /\ steps' = Append(steps, "parse_drama_output")
    /\ UNCHANGED <<report, output, built_from, phys_addr, decoded, calls>>

\* Step 5: the closure captures mapping_info and is returned
GenerateAddressMappingFunction ==
    /\ pc = "generate_address_mapping_function"
    /\ built_from' = mapping_info
    /\ pc' = "returned"
    /\ steps' = Append(steps, "generate_address_mapping_function")
    /\ UNCHANGED <<error, report, output, mapping_info, phys_addr, decoded, calls>>

\* ------------------------------------------------------------------------
\* Concurrent calls of the returned decoder
\* ------------------------------------------------------------------------
StartCall(c) ==
    /\ pc = "returned"
    /\ calls[c].at \in {"idle", "done"}
    /\ \E a \in CallerAddresses :
          calls' = [calls EXCEPT ![c] = [at |-> "row", addr |-> a, row |-> {},
                                         col |-> {}, result |-> NoResult]]
    /\ UNCHANGED <<pc, steps, error, report, output, mapping_info, built_from,
                   phys_addr, decoded>>

\* row = extract_bits(phys_addr, *mapping_info.get("row", (0, 0)))
EvalRow(c) ==
    /\ calls[c].at = "row"
    /\ \E r \in ExtractField(mapping_info, KeyRow, calls[c].addr) :
          calls' = IF IsRaised(r)
                   THEN [calls EXCEPT ![c].at = "done",
                                      ![c].result = CallRaise(r.exception)]
                   ELSE [calls EXCEPT ![c].at = "column", ![c].row = r.value]
    /\ mapping_info' = DictAfterGet(mapping_info, KeyRow)
    /\ UNCHANGED <<pc, steps, error, report, output, built_from, phys_addr, decoded>>

\* col = extract_bits(phys_addr, *mapping_info.get("column", (0, 0)))
EvalColumn(c) ==
    /\ calls[c].at = "column"
    /\ \E r \in ExtractField(mapping_info, KeyColumn, calls[c].addr) :
          calls' = IF IsRaised(r)
                   THEN [calls EXCEPT ![c].at = "done",
                                      ![c].result = CallRaise(r.exception)]
                   ELSE [calls EXCEPT ![c].at = "bank", ![c].col = r.value]
    /\ mapping_info' = DictAfterGet(mapping_info, KeyColumn)
    /\ UNCHANGED <<pc, steps, error, report, output, built_from, phys_addr, decoded>>

\* bank = extract_bits(...); return row, col, bank
EvalBank(c) ==
    /\ calls[c].at = "bank"
    /\ \E r \in ExtractField(mapping_info, KeyBank, calls[c].addr) :
          calls' = IF IsRaised(r)
                   THEN [calls EXCEPT ![c].at = "done",
                                      ![c].result = CallRaise(r.exception)]
                   ELSE [calls EXCEPT ![c].at = "done",
                                      ![c].result = Return(<<calls[c].row,
                                                             calls[c].col,
                                                             r.value>>)]
    /\ mapping_info' = DictAfterGet(mapping_info, KeyBank)
    /\ UNCHANGED <<pc, steps, error, report, output, built_from, phys_addr, decoded>>

Next ==
    \/ CheckDependencies
    \/ RunMake
    \/ ExecuteDramaToolFails
    \/ ExecuteDramaTool
    \/ ParseDramaOutput
    \/ GenerateAddressMappingFunction
    \/ \E c \in Callers : StartCall(c)
    \/ \E c \in Callers : EvalRow(c)
    \/ \E c \in Callers : EvalColumn(c)
    \/ \E c \in Callers : EvalBank(c)

Spec == Init /\ [][Next]_vars

\* ------------------------------------------------------------------------
\* parse_drama_output, generate_address_mapping_function and one decoder
\* call, applied by a client to a report text and an address
\* ------------------------------------------------------------------------
InitCore ==
    /\ pc = "parse_drama_output"
    /\ steps = <<>>
    /\ error = "none"
    /\ report \in Reports \cup {ExampleReport, OverlongReport}
    /\ output = Render(report)
    /\ mapping_info = EmptyMapping
    /\ built_from = EmptyMapping
    /\ phys_addr \in Addresses
    /\ decoded = NoResult
    /\ calls = [c \in Callers |-> IdleCall]

\* address_mapping_func(phys_addr)
DecodeCall ==
    /\ pc = "returned"
    /\ decoded' \in address_mapping_func(mapping_info, phys_addr)
    /\ pc' = "decoded"
    /\ UNCHANGED <<steps, error, report, output, mapping_info, built_from,
                   phys_addr, calls>>

NextCore ==
    \/ ParseDramaOutput
    \/ GenerateAddressMappingFunction
    \/ DecodeCall

SpecCore == InitCore /\ [][NextCore]_vars

TypeOK ==
    /\ pc \in {"check_dependencies", "run_make", "execute_drama_tool",
               "parse_drama_output", "generate_address_mapping_function",
               "returned", "decoded", "raised"}
    /\ error \in {"none", "EnvironmentError", "RuntimeError", "OSError",
                  "UnicodeDecodeError", "ValueError"}
    /\ DOMAIN mapping_info \subseteq {KeyRow, KeyColumn, KeyBank}

\* ------------------------------------------------------------------------
\* Properties
\* ------------------------------------------------------------------------
AfterParse == pc \in {"generate_address_mapping_function", "returned", "decoded"}

FieldOrder == <<"row", "column", "bank">>

\* the index of the last line of the report that states field f, 0 if none
LastIndex(f) ==
    IF \E i \in 1..Len(report.lines) : report.lines[i].field = f
    THEN CHOOSE i \in 1..Len(report.lines) :
            /\ report.lines[i].field = f
            /\ \A j \in (i + 1)..Len(report.lines) : report.lines[j].field # f
    ELSE 0

ValidMapping(m) == \A k \in DOMAIN m : ~m[k][1].neg /\ ~m[k][2].neg

\* the unsigned integer held in bits [o, o + w) of the 64-bit address a
FieldBits(a, o, w) ==
    IF ~FitsSmall(o) THEN {}
    ELSE {i \in AddressBits :
             /\ (i + ToSmall(o)) \in a
             /\ FitsSmall(w) => i < ToSmall(w)}

Small(bits) == bits \subseteq 0..30

SmallField(o, w) ==
    /\ FitsSmall(o) /\ ToSmall(o) <= 30
    /\ FitsSmall(w) /\ ToSmall(w) <= 30

\* C1: for every text the parser returns a mapping of which a field is a
\* key exactly when some line of the text states it, its value being
\* (start, end - start + 1) of the last such line.
C1_LastMatchingLineWins ==
    pc # "parse_drama_output" =>
        /\ AfterParse
        /\ \A f \in FieldNames :
              /\ (KeyOf(f) \in DOMAIN mapping_info) <=> (LastIndex(f) # 0)
              /\ LastIndex(f) # 0 =>
                    mapping_info[KeyOf(f)] =
                        <<report.lines[LastIndex(f)].start,
                          report.lines[LastIndex(f)].width>>

\* C2: for a mapping whose entries have offset >= 0 and width >= 0 the
\* decoder returns a 3-tuple (row, column, bank) whose components are the
\* bits [offset, offset + width) of the address, that is
\* floor(a / 2^offset) mod 2^width.
C2_DecodesBitRange ==
    (pc = "decoded" /\ ValidMapping(mapping_info)) =>
        /\ ~IsRaised(decoded)
        /\ Len(decoded.value) = 3
        /\ \A n \in 1..3 :
              KeyOf(FieldOrder[n]) \in DOMAIN mapping_info =>
                 LET o == mapping_info[KeyOf(FieldOrder[n])][1]
                     w == mapping_info[KeyOf(FieldOrder[n])][2]
                 IN  /\ decoded.value[n] = FieldBits(phys_addr, o, w)
                     /\ (Small(phys_addr) /\ SmallField(o, w)) =>
                           /\ Small(decoded.value[n])
                           /\ ToInt(decoded.value[n]) =
                                 (ToInt(phys_addr) \div (2 ^ ToSmall(o)))
                                     % (2 ^ ToSmall(w))

\* C3: parsing any text returns a mapping, and decoding any address with
\* the decoder built from it returns a tuple: neither raises.
C3_DecodeAfterParseNeverRaises ==
    /\ pc # "raised"
    /\ pc = "decoded" => ~IsRaised(decoded)

\* C4: every entry of the parsed mapping has offset >= 0 and width >= 0 and
\* describes an inclusive range start-end with start <= end.
C4_ParsedEntriesAreFieldSpecs ==
    AfterParse =>
        /\ ValidMapping(mapping_info)
        /\ \A f \in FieldNames :
              LastIndex(f) # 0 => report.lines[LastIndex(f)].ordered

\* C5: a field absent from the mapping decodes to 0 for every address
\* without an error, and the fields that are present are still extracted
\* from their own (offset, width).
C5_AbsentFieldDecodesToZero ==
    pc = "decoded" =>
        \A n \in 1..3 :
            KeyOf(FieldOrder[n]) \notin DOMAIN mapping_info =>
               /\ ~IsRaised(decoded)
               /\ decoded.value[n] = {}
               /\ \A k \in 1..3 :
                     KeyOf(FieldOrder[k]) \in DOMAIN mapping_info =>
                        decoded.value[k] =
                           FieldBits(phys_addr,
                                     mapping_info[KeyOf(FieldOrder[k])][1],
                                     mapping_info[KeyOf(FieldOrder[k])][2])

IsFieldLine(l) == l.field # "none"

\* the report without the lines that state no field
MatchingOnly(r) == [lines |-> SelectSeq(r.lines, IsFieldLine), eol |-> r.eol]

\* C6: lines that do not match the format are ignored: parsing a text
\* raises no error and returns the mapping parsed from the text without
\* them, whose keys are among row, column, bank, and which is empty when no
\* line matches.
C6_UnmatchedLinesIgnored ==
    pc # "parse_drama_output" =>
        /\ AfterParse
        /\ ~IsRaised(parse_drama_output(Render(MatchingOnly(report))))
        /\ mapping_info = parse_drama_output(Render(MatchingOnly(report))).value
        /\ DOMAIN mapping_info \subseteq {KeyRow, KeyColumn, KeyBank}
        /\ (\A i \in 1..Len(report.lines) : ~IsFieldLine(report.lines[i])) =>
              mapping_info = EmptyMapping

\* C7: a field ending at bit 63 decodes on the address 2^64 - 1 to
\* 2^width - 1; a field reaching past bit 63 reads the missing bits as 0:
\* its value is floor(a / 2^offset), below 2^(64 - offset), and 0 when
\* offset >= 64.
C7_TopBitBoundary ==
    (pc = "decoded" /\ ValidMapping(mapping_info)) =>
        \A n \in 1..3 :
            KeyOf(FieldOrder[n]) \in DOMAIN mapping_info =>
               LET o == mapping_info[KeyOf(FieldOrder[n])][1]
                   w == mapping_info[KeyOf(FieldOrder[n])][2]
               IN  /\ (IntAdd(o, w) = Num(64) /\ phys_addr = MaxAddress) =>
                          /\ ~IsRaised(decoded)
                          /\ decoded.value[n] = 0..(ToSmall(w) - 1)
                   /\ IntLess(Num(64), IntAdd(o, w)) =>
                          /\ ~IsRaised(decoded)
                          /\ decoded.value[n] = ShiftRight(phys_addr, o)
                          /\ \A i \in decoded.value[n] : i + ToSmall(o) <= 63
                          /\ (~IntLess(o, Num(64)) => decoded.value[n] = {})

\* C8: the report "Row bits 14-29", "Column bits 2-13", "Bank bits 30-32"
\* parses to row -> (14, 16), column -> (2, 12), bank -> (30, 3), and its
\* decoder maps 0x12345678 to (18641, 1438, 0).
C8_EndToEndExample ==
    report = ExampleReport =>
        /\ pc # "raised"
        /\ AfterParse =>
              /\ DOMAIN mapping_info = {KeyRow, KeyColumn, KeyBank}
              /\ mapping_info[KeyRow] = <<Num(14), Num(16)>>
              /\ mapping_info[KeyColumn] = <<Num(2), Num(12)>>
              /\ mapping_info[KeyBank] = <<Num(30), Num(3)>>
        /\ (pc = "decoded" /\ phys_addr = FromInt(305419896)) =>
              /\ ~IsRaised(decoded)
              /\ ToInt(decoded.value[1]) = 18641
              /\ ToInt(decoded.value[2]) = 1438
              /\ ToInt(decoded.value[3]) = 0

C8_Witness ==
    /\ report = ExampleReport
    /\ pc = "decoded"
    /\ phys_addr = FromInt(305419896)
    /\ decoded = Return(<<FromInt(18641), FromInt(1438), {}>>)

\* C9: no decoder call and no generation ever changes the mapping the
\* decoder was built from (the mapping parsed from the output), so every
\* call, however interleaved with other callers, ends as an isolated call
\* with the same address can end.
C9_CallsShareNoMutableState ==
    /\ pc = "returned" =>
          /\ mapping_info = built_from
          /\ mapping_info = parse_drama_output(output).value
    /\ \A c \in Callers :
          calls[c].at = "done" =>
             calls[c].result \in address_mapping_func(built_from, calls[c].addr)

C9_Witness ==
    /\ report = ExampleReport
    /\ calls[1].at = "done"
    /\ calls[1].addr = MaxAddress
    /\ calls[1].result = Return(<<0..15, 0..11, 0..2>>)
    /\ calls[2].at = "bank"
    /\ calls[2].addr = FromInt(240)

PipelineOrder == <<"check_dependencies", "run_make", "execute_drama_tool",
                   "parse_drama_output", "generate_address_mapping_function">>

C10_State ==
    /\ Len(steps) <= Len(PipelineOrder)
    /\ steps = SubSeq(PipelineOrder, 1, Len(steps))
    /\ error # "none" =>
          /\ pc = "raised"
          /\ \A c \in Callers : calls[c] = IdleCall
    /\ pc = "raised" => error # "none"
    /\ error = "EnvironmentError" => Len(steps) = 1
    /\ error = "RuntimeError" => Len(steps) \in {2, 3}
    /\ (pc = "returned" \/ \E c \in Callers : calls[c] # IdleCall) =>
          /\ steps = PipelineOrder
          /\ error = "none"
          /\ output # <<>>

\* C10: the steps run in the order check_dependencies, run_make,
\* execute_drama_tool, parse_drama_output,
\* generate_address_mapping_function; after a failure (missing dependency,
\* failed make, failed tool, empty output) no later step runs and no decoder
\* is returned; a decoder is returned only after all five steps, with a
\* non-empty output.
C10_PipelineOrderAndStop ==
    /\ []C10_State
    /\ [][error = "none" /\ pc # "raised"]_vars

C10_Witness ==
    /\ pc = "raised"
    /\ error = "RuntimeError"
    /\ steps = SubSeq(PipelineOrder, 1, 3)
    /\ report = NoReport
    /\ output = <<>>

====
